---------------------------- MODULE Spec2Model ----------------------------
(***************************************************************************)
(* Model of clock_diff.py: an NTP drift monitor.  main() opens a UDP       *)
(* socket, then polls one server forever: send a request, wait for the     *)
(* reply, decode the two server timestamps, record offset and delay,       *)
(* sleep.  Ctrl-C (KeyboardInterrupt) leaves the loop and prints a         *)
(* summary.                                                                *)
(*                                                                         *)
(* Numbers.  TLC's integers are 32 bits wide, so NTP's 2 x 32-bit          *)
(* timestamps and Python's 53-bit floats are modelled at reduced width     *)
(* with the same structure: a timestamp field is 4 "bytes" of radix        *)
(* ByteBase, and a float is an integer number of units (UnitsPerSecond to  *)
(* the second) rounded to MantBits significant bits, round-half-to-even,   *)
(* after every arithmetic operation.  As in the program, the mantissa      *)
(* holds the seconds field alone and the fraction field alone exactly,     *)
(* but not every seconds + fraction sum.                                   *)
(***************************************************************************)
EXTENDS Integers, Sequences, FiniteSets, TLC

VARIABLES
    pc,         \* where main() is
    interval,   \* args.interval, in seconds
    client,     \* the socket: "none", "open", "closed"
    acquired,   \* how many sockets main() has created
    sequence,   \* the sequence counter
    results,    \* the list of samples [offset, delay]
    t1, t4,     \* the local clock readings of the current exchange
    t2, t3,     \* the server's receive and transmit time, decoded
    data,       \* the reply datagram returned by recvfrom
    server,     \* the <<receive, transmit>> stamps the peer put in that reply
    sent,       \* datagrams handed to the network by sendto
    received,   \* datagrams returned by recvfrom
    events,     \* what the current iteration did so far, in order
    slept,      \* the durations the current iteration slept, in order
    stoppedAt,  \* the pc at which KeyboardInterrupt was raised, or "none"
    reports,    \* how many summary blocks were printed
    summary     \* the summary block's content, or [kind |-> "none"]

vars == << pc, interval, client, acquired, sequence, results, t1, t4, t2, t3,
           data, server, sent, received, events, slept, stoppedAt, reports,
           summary >>

-----------------------------------------------------------------------------
(* Bounds of the model *)

\* iterations of the poll loop a run may start
MaxSeq == 2
\* the same, under SpecWide
MaxSeqWide == 1
\* samples recorded before the interrupt, under SpecStats
MaxSamples == 3

-----------------------------------------------------------------------------
(* Program constants (scaled where the note above says so) *)

\* radix of one byte of a timestamp field (256 in the program)
ByteBase == 2
\* bytes in one "I" field of the "!II" format
FieldBytes == 4
\* 2**32 in the program: the denominator of the fraction field
FracDen == ByteBase * ByteBase * ByteBase * ByteBase
\* seconds between the NTP epoch and the Unix epoch, at the scaled width
\* (2208988800 of 2^32 in the program, about 0.51 of the field's range)
NTP_DELTA == 8
\* significant bits of a Python float (53 in the program)
MantBits == 5
\* float units per tick of the fraction field
UnitsPerTick == 64
UnitsPerSecond == FracDen * UnitsPerTick
\* data[32:40] and data[40:48]
RxFrom == 32
RxTo == 40
TxFrom == 40
TxTo == 48
\* time.sleep(1) after a resolution failure
Cooldown == 1

-----------------------------------------------------------------------------
(* Inputs drawn by the environment *)

\* -i / --interval: argparse's float() accepts any sign
Intervals == {-1, 0, 1}

\* time.time() readings, in units: 1.0 s, 1.25 s
LocalTimes == {1024, 1280}

\* <<seconds, fraction>> pairs a peer may stamp: 1.0 s and 1.5 s Unix time
ServerStamps == { <<9, 0>>, <<9, 8>> }

\* lengths of reply datagrams: empty, short of both timestamps, one byte
\* short of the transmit timestamp, complete
ReplyLens == {0, 10, 47, 48}

\* The wider inputs of SpecWide, which runs fewer iterations: clock readings
\* 1.0 s, 1.25 s, 2.0 s; stamps 1.0 s, 1.5 s, 1.625 s, the earliest stamp
\* (-8.0 s) and 7.9375 s, which no float of MantBits bits holds; complete
\* replies with and without trailing bytes
WideTimes == {1024, 1280, 2048}
WideStamps == { <<9, 0>>, <<9, 8>>, <<9, 10>>, <<0, 0>>, <<15, 15>> }
WideLens == {48, 50}

\* The exchanges of SpecStats, <<t1, stamp, t4>> with the stamp as both
\* server times: clock readings 0.46875 s to 0.59375 s against the stamps
\* 0.0 s and 1.0 s give the offsets +-0.53125 s, +-0.5 s, +-0.46875 s,
\* 0.40625 s and -0.59375 s with delay 0; two more have delay +-0.0625 s
StatTimes == {480, 512, 544, 608}
StatStamps == { <<8, 0>>, <<9, 0>> }
StatInputs ==
    { <<a, r, a>> : a \in StatTimes, r \in StatStamps }
        \cup { <<480, <<9, 0>>, 544>>, <<608, <<8, 0>>, 544>> }

\* The replies of SpecCodec: every value of the two fields as the receive
\* timestamp, with the same or a fixed transmit timestamp, in a datagram
\* that is complete or cut inside either timestamp
AllStamps == { <<s, f>> : s \in 0..(FracDen - 1), f \in 0..(FracDen - 1) }
CodecStamps ==
    { <<st, st>> : st \in AllStamps } \cup { <<st, <<9, 0>> >> : st \in AllStamps }
CodecLens == {36, 44, 47, 48}

-----------------------------------------------------------------------------
(* Floats *)

Abs(x) == IF x < 0 THEN -x ELSE x

Pow2(k) == 2 ^ k

\* number of bits of n >= 0
BitLen(n) == CHOOSE k \in 0..30 : n < Pow2(k) /\ (k = 0 \/ Pow2(k - 1) <= n)

\* x rounded to the nearest float, ties to even
Fl(x) ==
    LET a == Abs(x)
        e == BitLen(a) - MantBits
    IN  IF e <= 0 THEN x
        ELSE LET q  == Pow2(e)
                 m  == a \div q
                 r  == a - m * q
                 up == IF 2 * r > q \/ (2 * r = q /\ m % 2 = 1)
                       THEN (m + 1) * q ELSE m * q
             IN  IF x < 0 THEN -up ELSE up

FSub(a, b) == Fl(a - b)
FAdd(a, b) == Fl(a + b)
\* x / 2: exact in binary floating point; every float of this model is a
\* whole number of ticks, so x is even
FHalf(x) == x \div 2

\* a / n for a count n >= 1, rounded to the nearest float, ties to even
\* (quotients below Pow2(MantBits - 1) units are rounded to whole units)
FDiv(a, n) ==
    LET mag   == Abs(a)
        whole == mag \div n
        e     == IF BitLen(whole) > MantBits THEN BitLen(whole) - MantBits
                 ELSE 0
        q     == Pow2(e) * n
        m     == mag \div q
        r     == mag - m * q
        up    == IF 2 * r > q \/ (2 * r = q /\ m % 2 = 1) THEN m + 1 ELSE m
    IN  IF a < 0 THEN -(up * Pow2(e)) ELSE up * Pow2(e)

\* x ** 2, in square units
FSquare(x) == Fl(x * x)

\* the largest r with r * r <= v
ISqrt(v) == CHOOSE r \in 0..2048 : r * r <= v /\ v < (r + 1) * (r + 1)

\* math.sqrt(v) of v square units, in units, rounded to the nearest float
\* (roots below Pow2(MantBits - 1) units are rounded to whole units)
FSqrt(v) ==
    LET r0 == ISqrt(v)
        e  == IF BitLen(r0) > MantBits THEN BitLen(r0) - MantBits ELSE 0
        g  == Pow2(e)
        lo == (r0 \div g) * g
        md == 2 * lo + g
    IN  IF 4 * v > md * md \/ (4 * v = md * md /\ (lo \div g) % 2 = 1)
        THEN lo + g ELSE lo

RECURSIVE FSum(_)
\* sum(q): 0 + q[1] + q[2] + ..., left to right, each addition rounded
FSum(q) ==
    IF q = << >> THEN 0
    ELSE FAdd(FSum(SubSeq(q, 1, Len(q) - 1)), q[Len(q)])

RECURSIVE SeqMax(_)
SeqMax(q) ==
    IF Len(q) = 1 THEN q[1]
    ELSE LET m == SeqMax(SubSeq(q, 1, Len(q) - 1))
         IN  IF q[Len(q)] > m THEN q[Len(q)] ELSE m

RECURSIVE SeqMin(_)
SeqMin(q) ==
    IF Len(q) = 1 THEN q[1]
    ELSE LET m == SeqMin(SubSeq(q, 1, Len(q) - 1))
         IN  IF q[Len(q)] < m THEN q[Len(q)] ELSE m

-----------------------------------------------------------------------------
(* Timestamp codec *)

\* Python's b[i:j]
Slice(b, i, j) ==
    LET hi == IF j < Len(b) THEN j ELSE Len(b)
    IN  IF i + 1 > hi THEN << >> ELSE SubSeq(b, i + 1, hi)

RECURSIVE BigEndian(_)
\* the unsigned integer a byte string holds, most significant byte first
BigEndian(b) ==
    IF b = << >> THEN 0
    ELSE BigEndian(SubSeq(b, 1, Len(b) - 1)) * ByteBase + b[Len(b)]

\* struct.unpack("!II", b) raises struct.error unless b is 8 bytes long
CanUnpack(b) == Len(b) = 2 * FieldBytes

UnpackSeconds(b) == BigEndian(SubSeq(b, 1, FieldBytes))
UnpackFraction(b) == BigEndian(SubSeq(b, FieldBytes + 1, 2 * FieldBytes))

\* (seconds - NTP_DELTA) + (fraction / 2**32), in units
\* get_ntp_time, had the two fields been unpacked in the other order
get_ntp_time_swapped(b) ==
    FAdd((UnpackFraction(b) - NTP_DELTA) * UnitsPerSecond,
         Fl((UnpackSeconds(b) * UnitsPerSecond) \div FracDen))

get_ntp_time(b) ==
    FAdd((UnpackSeconds(b) - NTP_DELTA) * UnitsPerSecond,
         Fl((UnpackFraction(b) * UnitsPerSecond) \div FracDen))

-----------------------------------------------------------------------------
(* The peer: what a reply datagram holds *)

RECURSIVE Digits(_, _)
\* n as k bytes, most significant first
Digits(n, k) ==
    IF k = 0 THEN << >>
    ELSE Append(Digits(n \div ByteBase, k - 1), n % ByteBase)

Zeros(k) == [i \in 1..k |-> 0]

\* a reply of len bytes: a 32-byte header, the receive and the transmit
\* timestamp, and whatever follows, cut to len
Reply(len, rx, tx) ==
    Slice(Zeros(RxFrom)
            \o Digits(rx[1], FieldBytes) \o Digits(rx[2], FieldBytes)
            \o Digits(tx[1], FieldBytes) \o Digits(tx[2], FieldBytes)
            \o Zeros(4),
          0, len)

-----------------------------------------------------------------------------
(* Offset/delay calculation, lines 68-71 *)

\* Delay, had a negative delay been clamped to zero
DelayClamped(a1, a2, a3, a4) ==
    LET d == FSub(FSub(a4, a1), FSub(a3, a2)) IN IF d < 0 THEN 0 ELSE d

Delay(a1, a2, a3, a4) == FSub(FSub(a4, a1), FSub(a3, a2))
Offset(a1, a2, a3, a4) == FHalf(FAdd(FSub(a2, a1), FSub(a3, a4)))

Sample(a1, a2, a3, a4) ==
    [offset |-> Offset(a1, a2, a3, a4), delay |-> Delay(a1, a2, a3, a4)]

-----------------------------------------------------------------------------
(* State machine *)

\* the places of the try block of lines 50-86
LoopPcs == {"top", "send", "recv", "parse", "print", "cooldown", "sleep"}

NoSummary == [kind |-> "none"]

Init ==
    /\ pc = "setup"
    /\ interval \in Intervals
    /\ client = "none"
    /\ acquired = 0
    /\ sequence = 0
    /\ results = << >>
    /\ t1 = 0
    /\ t4 = 0
    /\ t2 = 0
    /\ t3 = 0
    /\ data = << >>
    /\ server = << <<0, 0>>, <<0, 0>> >>
    /\ sent = 0
    /\ received = 0
    /\ events = << >>
    /\ slept = << >>
    /\ stoppedAt = "none"
    /\ reports = 0
    /\ summary = NoSummary

\* lines 35-48: results = [], the socket, sequence = 0
Setup ==
    /\ pc = "setup"
    /\ client' = "open"
    /\ acquired' = acquired + 1
    /\ pc' = "top"
    /\ UNCHANGED << t2, t3, interval, sequence, results, t1, t4, data, server, sent,
                    received, events, slept, stoppedAt, reports, summary >>

\* LoopTopTo, had the counter counted only the iterations that recorded
LoopTopToCountsSamples(max) ==
    /\ pc = "top"
    /\ sequence < max
    /\ sequence' = IF Len(results) = sequence THEN sequence + 1 ELSE sequence
    /\ events' = << >>
    /\ slept' = << >>
    /\ pc' = "send"
    /\ UNCHANGED << t2, t3, interval, client, acquired, results, t1, t4, data,
                    server, sent, received, stoppedAt, reports, summary >>

\* lines 51-53: a new iteration, while fewer than max were started
LoopTopTo(max) ==
    /\ pc = "top"
    /\ sequence < max
    /\ sequence' = sequence + 1
    /\ events' = << >>
    /\ slept' = << >>
    /\ pc' = "send"
    /\ UNCHANGED << t2, t3, interval, client, acquired, results, t1, t4, data, server,
                    sent, received, stoppedAt, reports, summary >>

\* SendOkAt, had sendto been retried within the iteration
SendOkTwice(times) ==
    /\ pc = "send"
    /\ \E now \in times : t1' = now
    /\ sent' = sent + 2
    /\ events' = events \o << "sendto", "request", "sendto", "request" >>
    /\ pc' = "recv"
    /\ UNCHANGED << t2, t3, interval, client, acquired, sequence, results, t4, data,
                    server, received, slept, stoppedAt, reports, summary >>

\* lines 57-58: sendto hands the request to the network
SendOkAt(times) ==
    /\ pc = "send"
    /\ \E now \in times : t1' = now
    /\ sent' = sent + 1
    /\ events' = events \o << "sendto", "request" >>
    /\ pc' = "recv"
    /\ UNCHANGED << t2, t3, interval, client, acquired, sequence, results, t4, data,
                    server, received, slept, stoppedAt, reports, summary >>

\* SendGaierrorAt, had the handler no time.sleep(1)
SendGaierrorNoCooldown(times) ==
    /\ pc = "send"
    /\ \E now \in times : t1' = now
    /\ events' = events \o << "sendto", "resolve_notice" >>
    /\ pc' = "sleep"
    /\ UNCHANGED << t2, t3, interval, client, acquired, sequence, results, t4, data,
                    server, sent, received, slept, stoppedAt, reports,
                    summary >>

\* lines 57-58, 80-81: sendto cannot resolve the host name; nothing is sent
SendGaierrorAt(times) ==
    /\ pc = "send"
    /\ \E now \in times : t1' = now
    /\ events' = events \o << "sendto", "resolve_notice" >>
    /\ pc' = "cooldown"
    /\ UNCHANGED << t2, t3, interval, client, acquired, sequence, results, t4, data,
                    server, sent, received, slept, stoppedAt, reports,
                    summary >>

\* lines 57-58, 83-84: sendto fails otherwise; nothing is sent
SendErrorAt(times) ==
    /\ pc = "send"
    /\ \E now \in times : t1' = now
    /\ events' = events \o << "sendto", "error_notice" >>
    /\ pc' = "sleep"
    /\ UNCHANGED << t2, t3, interval, client, acquired, sequence, results, t4, data,
                    server, sent, received, slept, stoppedAt, reports,
                    summary >>

\* lines 60-61: a reply arrives within the timeout
RecvDataOf(lens, stamps, times) ==
    /\ pc = "recv"
    /\ \E len \in lens, rx \in stamps, tx \in stamps :
          /\ data' = Reply(len, rx, tx)
          /\ server' = << rx, tx >>
    /\ \E now \in times : t4' = now
    /\ received' = received + 1
    /\ events' = Append(events, "reply")
    /\ pc' = "parse"
    /\ UNCHANGED << t2, t3, interval, client, acquired, sequence, results, t1, sent,
                    slept, stoppedAt, reports, summary >>

\* RecvTimeout, had the timeout handler recorded a sample of zeros
RecvTimeoutRecords ==
    /\ pc = "recv"
    /\ events' = Append(events, "timeout_notice")
    /\ results' = Append(results, [offset |-> 0, delay |-> 0])
    /\ pc' = "sleep"
    /\ UNCHANGED << t2, t3, interval, client, acquired, sequence, t1, t4, data,
                    server, sent, received, slept, stoppedAt, reports,
                    summary >>

\* lines 60, 78-79: socket.timeout after 2 seconds
RecvTimeout ==
    /\ pc = "recv"
    /\ events' = Append(events, "timeout_notice")
    /\ pc' = "sleep"
    /\ UNCHANGED << t2, t3, interval, client, acquired, sequence, results, t1, t4,
                    data, server, sent, received, slept, stoppedAt, reports,
                    summary >>

\* lines 60, 83-84: recvfrom fails otherwise
RecvError ==
    /\ pc = "recv"
    /\ events' = Append(events, "error_notice")
    /\ pc' = "sleep"
    /\ UNCHANGED << t2, t3, interval, client, acquired, sequence, results, t1, t4,
                    data, server, sent, received, slept, stoppedAt, reports,
                    summary >>

\* line 64: an empty reply is falsy; the if body is skipped
ParseEmpty ==
    /\ pc = "parse"
    /\ data = << >>
    /\ pc' = "sleep"
    /\ UNCHANGED << t2, t3, interval, client, acquired, sequence, results, t1, t4,
                    data, server, sent, received, events, slept, stoppedAt,
                    reports, summary >>

\* lines 65-66, 83-84: one of the two slices is short; struct.error.  When
\* only the second is short, line 65 has assigned t2
ParseError ==
    /\ pc = "parse"
    /\ data # << >>
    /\ \/ ~CanUnpack(Slice(data, RxFrom, RxTo))
       \/ ~CanUnpack(Slice(data, TxFrom, TxTo))
    /\ t2' = IF CanUnpack(Slice(data, RxFrom, RxTo))
             THEN get_ntp_time(Slice(data, RxFrom, RxTo)) ELSE t2
    /\ events' = Append(events, "error_notice")
    /\ pc' = "sleep"
    /\ UNCHANGED << t3, interval, client, acquired, sequence, results, t1, t4,
                    data, server, sent, received, slept, stoppedAt, reports,
                    summary >>

\* lines 65-71: decode, calculate, append
Record ==
    /\ pc = "parse"
    /\ data # << >>
    /\ CanUnpack(Slice(data, RxFrom, RxTo))
    /\ CanUnpack(Slice(data, TxFrom, TxTo))
    /\ t2' = get_ntp_time(Slice(data, RxFrom, RxTo))
    /\ t3' = get_ntp_time(Slice(data, TxFrom, TxTo))
    /\ results' = Append(results, Sample(t1, t2', t3', t4))
    /\ pc' = "print"
    /\ UNCHANGED << interval, client, acquired, sequence, t1, t4, data,
                    server, sent, received, events, slept, stoppedAt, reports,
                    summary >>

\* PrintProgress, had a successful iteration gone on without the sleep
PrintProgressSkipsSleep ==
    /\ pc = "print"
    /\ events' = Append(events, "progress")
    /\ pc' = "top"
    /\ UNCHANGED << t2, t3, interval, client, acquired, sequence, results, t1,
                    t4, data, server, sent, received, slept, stoppedAt,
                    reports, summary >>

\* lines 73-76: the progress line
PrintProgress ==
    /\ pc = "print"
    /\ events' = Append(events, "progress")
    /\ pc' = "sleep"
    /\ UNCHANGED << t2, t3, interval, client, acquired, sequence, results, t1, t4,
                    data, server, sent, received, slept, stoppedAt, reports,
                    summary >>

\* line 82: time.sleep(1)
CooldownSleep ==
    /\ pc = "cooldown"
    /\ slept' = Append(slept, Cooldown)
    /\ pc' = "sleep"
    /\ UNCHANGED << t2, t3, interval, client, acquired, sequence, results, t1, t4,
                    data, server, sent, received, events, stoppedAt, reports,
                    summary >>

\* line 86: time.sleep(interval)
SleepOk ==
    /\ pc = "sleep"
    /\ interval >= 0
    /\ slept' = Append(slept, interval)
    /\ pc' = "top"
    /\ UNCHANGED << t2, t3, interval, client, acquired, sequence, results, t1, t4,
                    data, server, sent, received, events, stoppedAt, reports,
                    summary >>

\* SleepRaises, had time.sleep refused a length of zero as well
SleepRaisesOnZero ==
    /\ pc = "sleep"
    /\ interval <= 0
    /\ pc' = "crashed"
    /\ UNCHANGED << t2, t3, interval, client, acquired, sequence, results, t1,
                    t4, data, server, sent, received, events, slept,
                    stoppedAt, reports, summary >>

\* line 86: time.sleep of a negative length raises ValueError, which no
\* handler of main() catches
SleepRaises ==
    /\ pc = "sleep"
    /\ interval < 0
    /\ pc' = "crashed"
    /\ UNCHANGED << t2, t3, interval, client, acquired, sequence, results, t1, t4,
                    data, server, sent, received, events, slept, stoppedAt,
                    reports, summary >>

\* Interrupt, had an exchange in flight been given its timeout first
InterruptAfterOutcome ==
    /\ pc \in LoopPcs
    /\ stoppedAt' = pc
    /\ events' = IF pc = "recv" THEN Append(events, "timeout_notice")
                 ELSE events
    /\ pc' = "summary"
    /\ UNCHANGED << t2, t3, interval, client, acquired, sequence, results, t1, t4,
                    data, server, sent, received, slept, reports, summary >>

\* line 88: KeyboardInterrupt is raised wherever the try block is: it is
\* no Exception, so the handlers of lines 78-84 let it pass, also out of a
\* blocked recvfrom or sleep.  The signal is taken to arrive once, while
\* the try block runs (not during lines 17-49, nor during the summary).
Interrupt ==
    /\ pc \in LoopPcs
    /\ stoppedAt' = pc
    /\ pc' = "summary"
    /\ UNCHANGED << t2, t3, interval, client, acquired, sequence, results, t1, t4,
                    data, server, sent, received, events, slept, reports,
                    summary >>

\* SummaryOf, had the comprehensions skipped the first sample
SummaryOfTail(rs) ==
    IF rs # << >>
    THEN [kind    |-> "stats",
          offsets |-> [i \in 1..(Len(rs) - 1) |-> rs[i + 1].offset],
          delays  |-> [i \in 1..(Len(rs) - 1) |-> rs[i + 1].delay],
          count   |-> Len(rs) - 1]
    ELSE [kind |-> "nodata"]

\* line 114: 0.5 seconds
HalfSecond == UnitsPerSecond \div 2

\* Verdict, had the comparison been strict
VerdictStrict(avg) ==
    IF Abs(avg) < HalfSecond THEN "ACCURATE" ELSE "DRIFTING"

\* lines 114-117: the classification
Verdict(avg) ==
    IF Abs(avg) <= HalfSecond THEN "ACCURATE" ELSE "DRIFTING"

\* Variance, had the divisor been that of the sample variance
VarianceOfSample(offsets, avg, count) ==
    FDiv(FSum([i \in 1..Len(offsets) |-> FSquare(FSub(offsets[i], avg))]),
         IF count > 1 THEN count - 1 ELSE 1)

\* line 102: the mean of the squared deviations, in square units
Variance(offsets, avg, count) ==
    FDiv(FSum([i \in 1..Len(offsets) |-> FSquare(FSub(offsets[i], avg))]),
         count)

\* lines 92-119: the content of the summary block: the aggregates of all
\* samples and the classification, or "No data collected."
SummaryOf(rs) ==
    IF rs # << >>
    THEN LET offsets    == [i \in 1..Len(rs) |-> rs[i].offset]
             delays     == [i \in 1..Len(rs) |-> rs[i].delay]
             count      == Len(offsets)
             avg_offset == FDiv(FSum(offsets), count)
             variance   == Variance(offsets, avg_offset, count)
         IN  [kind       |-> "stats",
              offsets    |-> offsets,
              delays     |-> delays,
              count      |-> count,
              avg_offset |-> avg_offset,
              max_offset |-> SeqMax(offsets),
              min_offset |-> SeqMin(offsets),
              avg_delay  |-> FDiv(FSum(delays), count),
              variance   |-> variance,
              std_dev    |-> FSqrt(variance),
              verdict    |-> Verdict(avg_offset)]
    ELSE [kind |-> "nodata"]

\* Summary, had the classification been printed after the if/else of
\* line 92, from an average that defaults to 0
SummaryAlwaysVerdict ==
    /\ pc = "summary"
    /\ summary' = IF results # << >> THEN SummaryOf(results)
                  ELSE [kind |-> "nodata", verdict |-> Verdict(0)]
    /\ reports' = reports + 1
    /\ pc' = "close"
    /\ UNCHANGED << t2, t3, interval, client, acquired, sequence, results, t1,
                    t4, data, server, sent, received, events, slept,
                    stoppedAt >>

\* lines 90-121: the summary block
Summary ==
    /\ pc = "summary"
    /\ summary' = SummaryOf(results)
    /\ reports' = reports + 1
    /\ pc' = "close"
    /\ UNCHANGED << t2, t3, interval, client, acquired, sequence, results, t1, t4,
                    data, server, sent, received, events, slept, stoppedAt >>

\* Close, had client.close() been inside the "if results:" branch
CloseIfData ==
    /\ pc = "close"
    /\ client' = IF results # << >> THEN "closed" ELSE client
    /\ pc' = "done"
    /\ UNCHANGED << t2, t3, interval, acquired, sequence, results, t1, t4, data,
                    server, sent, received, events, slept, stoppedAt, reports,
                    summary >>

\* line 122: client.close()
Close ==
    /\ pc = "close"
    /\ client' = "closed"
    /\ pc' = "done"
    /\ UNCHANGED << t2, t3, interval, acquired, sequence, results, t1, t4, data,
                    server, sent, received, events, slept, stoppedAt, reports,
                    summary >>

LoopTop == LoopTopTo(MaxSeq)
SendOk == SendOkAt(LocalTimes)
SendGaierror == SendGaierrorAt(LocalTimes)
SendError == SendErrorAt(LocalTimes)
RecvData == RecvDataOf(ReplyLens, ServerStamps, LocalTimes)

LoopTopWide == LoopTopTo(MaxSeqWide)
SendOkWide == SendOkAt(WideTimes)
SendGaierrorWide == SendGaierrorAt(WideTimes)
SendErrorWide == SendErrorAt(WideTimes)
RecvDataWide == RecvDataOf(WideLens \cup {0, 47}, WideStamps, WideTimes)

Next ==
    \/ Setup
    \/ LoopTop
    \/ SendOk
    \/ SendGaierror
    \/ SendError
    \/ RecvData
    \/ RecvTimeout
    \/ RecvError
    \/ ParseEmpty
    \/ ParseError
    \/ Record
    \/ PrintProgress
    \/ CooldownSleep
    \/ SleepOk
    \/ SleepRaises
    \/ Interrupt
    \/ Summary
    \/ Close

Spec == Init /\ [][Next]_vars

\* The steps the program takes by itself: every statement returns or
\* raises, recvfrom within the 2 seconds of line 46; only the interrupt
\* depends on somebody else. The steps that compute floats are left to
\* Decode and Report below
Proceed ==
    \/ Setup
    \/ LoopTop
    \/ SendOk
    \/ SendGaierror
    \/ SendError
    \/ RecvData
    \/ RecvTimeout
    \/ RecvError
    \/ PrintProgress
    \/ CooldownSleep
    \/ SleepOk
    \/ SleepRaises
    \/ Close

\* lines 64-84: ParseEmpty, ParseError and Record seen through pc: they are
\* the only steps from "parse" to "sleep" or "print", and one of them is
\* enabled whatever the datagram (ENABLED of the three themselves costs TLC
\* seconds per state)
Decode == pc = "parse" /\ pc' \in {"sleep", "print"}

\* lines 90-121: Summary seen through pc, in the same way
Report == pc = "summary" /\ pc' = "close"

FairSpec == Spec /\ WF_vars(Proceed) /\ WF_pc(Decode) /\ WF_pc(Report)

\* the same program on the wider inputs
NextWide ==
    \/ Setup
    \/ LoopTopWide
    \/ SendOkWide
    \/ SendGaierrorWide
    \/ SendErrorWide
    \/ RecvDataWide
    \/ RecvTimeout
    \/ RecvError
    \/ ParseEmpty
    \/ ParseError
    \/ Record
    \/ PrintProgress
    \/ CooldownSleep
    \/ SleepOk
    \/ SleepRaises
    \/ Interrupt
    \/ Summary
    \/ Close

SpecWide == Init /\ [][NextWide]_vars

\* The summary on its own: the states in which KeyboardInterrupt has just
\* been caught, after the exchanges ins (each one a complete reply, recorded
\* and printed) or, with no exchange, during the first receive
StoppedAfter(ins) ==
    LET n    == Len(ins)
        d(i) == Reply(TxTo, ins[i][2], ins[i][2])
        p(i) == get_ntp_time(Slice(d(i), RxFrom, RxTo))
        q(i) == get_ntp_time(Slice(d(i), TxFrom, TxTo))
    IN  /\ pc = "summary"
        /\ interval = 1
        /\ client = "open"
        /\ acquired = 1
        /\ results = [i \in 1..n |-> Sample(ins[i][1], p(i), q(i), ins[i][3])]
        /\ sequence = IF n = 0 THEN 1 ELSE n
        /\ sent = IF n = 0 THEN 1 ELSE n
        /\ received = n
        /\ t1 = IF n = 0 THEN 480 ELSE ins[n][1]
        /\ t4 = IF n = 0 THEN 0 ELSE ins[n][3]
        /\ t2 = IF n = 0 THEN 0 ELSE p(n)
        /\ t3 = IF n = 0 THEN 0 ELSE q(n)
        /\ data = IF n = 0 THEN << >> ELSE d(n)
        /\ server = IF n = 0 THEN << <<0, 0>>, <<0, 0>> >>
                    ELSE << ins[n][2], ins[n][2] >>
        /\ events = IF n = 0 THEN << "sendto", "request" >>
                    ELSE << "sendto", "request", "reply", "progress" >>
        /\ slept = << >>
        /\ stoppedAt = IF n = 0 THEN "recv" ELSE "sleep"
        /\ reports = 0
        /\ summary = NoSummary

InitStats ==
    \E n \in 0..MaxSamples : \E ins \in [1..n -> StatInputs] :
        StoppedAfter(ins)

NextStats ==
    \/ Summary
    \/ Close

SpecStats == InitStats /\ [][NextStats]_vars

\* The decoding on its own: the states in which the first exchange has just
\* received a datagram of len bytes carrying the timestamps rx and tx
ReceivedFirst(len, rx, tx) ==
    /\ pc = "parse"
    /\ interval = 1
    /\ client = "open"
    /\ acquired = 1
    /\ sequence = 1
    /\ results = << >>
    /\ t1 = 1024
    /\ t4 = 1024
    /\ t2 = 0
    /\ t3 = 0
    /\ data = Reply(len, rx, tx)
    /\ server = << rx, tx >>
    /\ sent = 1
    /\ received = 1
    /\ events = << "sendto", "request", "reply" >>
    /\ slept = << >>
    /\ stoppedAt = "none"
    /\ reports = 0
    /\ summary = NoSummary

InitCodec ==
    \E len \in CodecLens : \E st \in CodecStamps :
        ReceivedFirst(len, st[1], st[2])

NextCodec ==
    \/ ParseError
    \/ Record

SpecCodec == InitCodec /\ [][NextCodec]_vars

-----------------------------------------------------------------------------
(* Vocabulary of the properties *)

Range(q) == {q[i] : i \in DOMAIN q}
Count(q, e) == Cardinality({i \in DOMAIN q : q[i] = e})
Last(q) == q[Len(q)]

\* the notices of a failed exchange
FailureNotices == {"timeout_notice", "resolve_notice", "error_notice"}

TypeOK ==
    /\ pc \in LoopPcs \cup {"setup", "summary", "close", "done", "crashed"}
    /\ interval \in Intervals
    /\ client \in {"none", "open", "closed"}
    /\ sequence \in Nat
    /\ sent \in Nat /\ received \in Nat /\ reports \in Nat
    /\ \A i \in DOMAIN results :
          results[i].offset % UnitsPerTick = 0
          /\ results[i].delay % UnitsPerTick = 0

-----------------------------------------------------------------------------
(* C1: samples are appended only by a completed exchange *)

\* C1: a step changes the sample collection only by appending one sample at
\* its end, and only as the step that follows a received reply whose two
\* timestamps decoded; a step that emits a timeout, resolution or generic
\* error notice, or that skips an empty reply, leaves the collection as it
\* was; and an iteration that appended a sample has no failure notice.
C1_AppendOnlyOnSuccess ==
    /\ [](("progress" \in Range(events) \/ pc = "print")
             => Range(events) \cap FailureNotices = {})
    /\ [][ /\ results' # results =>
                /\ pc = "parse" /\ pc' = "print"
                /\ events = << "sendto", "request", "reply" >>
                /\ Len(data) >= TxTo
                /\ Len(results') = Len(results) + 1
                /\ SubSeq(results', 1, Len(results)) = results
           /\ (events' # events /\ events' # << >>
                 /\ Last(events') \in FailureNotices) => results' = results
           /\ (pc = "parse" /\ pc' = "sleep") => results' = results
         ]_vars

\* a failed iteration after a successful one: the sample is still there
C1_Witness ==
    /\ sequence = 2
    /\ Len(results) = 1
    /\ pc = "sleep"
    /\ "timeout_notice" \in Range(events)

-----------------------------------------------------------------------------
(* C2: only the interrupt ends the poll loop *)

\* C2: whatever the outcome of an exchange, the loop goes on to the next
\* iteration; the only step that leaves the loop is the interrupt, which
\* enters Stopped (the summary).
C2_OnlyInterruptEndsLoop ==
    [][ (pc \in LoopPcs /\ pc' \notin LoopPcs)
           => (pc' = "summary" /\ stoppedAt' = pc) ]_vars

-----------------------------------------------------------------------------
(* C3: replies shorter than 48 bytes *)

\* C3: an iteration that received a reply of 0 to 47 bytes ends with the
\* generic error notice and without a sample; a sample is appended only for
\* a reply of at least 48 bytes.
C3_ShortReplyIsGenericError ==
    /\ (pc = "sleep" /\ "reply" \in Range(events) /\ Len(data) < TxTo)
          => (Last(events) = "error_notice"
              /\ "progress" \notin Range(events))
    /\ pc = "print" => Len(data) >= TxTo

-----------------------------------------------------------------------------
(* C4: where the interrupt is acted upon *)

\* C4 as claimed: an interrupt that arrives while an exchange is in flight
\* is not acted upon before the exchange has reached its outcome.
C4_InFlightExchangeNotAborted ==
    [][ pc = "recv" => pc' # "summary" ]_vars

\* C4 as amended: the interrupt is acted upon wherever in the loop it
\* arrives, also while an exchange is in flight: the step into Stopped
\* comes straight from the place the loop was at, appends no sample and
\* emits no notice, and an exchange interrupted in flight never gets an
\* outcome.
C4_InterruptAbortsInFlight ==
    /\ [](stoppedAt = "recv"
            => /\ events = << "sendto", "request" >>
               /\ pc \in {"summary", "close", "done"})
    /\ [][ (pc \in LoopPcs /\ pc' \notin LoopPcs /\ pc' # "crashed")
              => /\ pc' = "summary"
                 /\ stoppedAt' = pc
                 /\ results' = results
                 /\ events' = events
                 /\ received' = received ]_vars

\* the loop was stopped with a request in flight, after an earlier sample
C4_Witness ==
    /\ stoppedAt = "recv"
    /\ pc = "done"
    /\ Len(results) = 1
    /\ sent = 2
    /\ received = 1

-----------------------------------------------------------------------------
(* C5: the summary report *)

\* C5: the summary is produced at most once, never while the loop is still
\* iterating, and once in every run that was interrupted and has finished;
\* it holds the offsets and delays of all recorded samples, in order; and
\* no sample is appended after it.
C5_SummaryOnceOverAllSamples ==
    /\ [](/\ reports <= 1
          /\ (pc \in LoopPcs \cup {"setup", "summary", "crashed"})
                => (reports = 0 /\ summary = NoSummary)
          /\ (pc \in {"close", "done"})
                => /\ reports = 1
                   /\ stoppedAt \in LoopPcs
                   /\ IF results = << >>
                      THEN summary.kind = "nodata"
                      ELSE /\ summary.kind = "stats"
                           /\ summary.count = Len(results)
                           /\ Len(summary.offsets) = Len(results)
                           /\ Len(summary.delays) = Len(results)
                           /\ \A i \in DOMAIN results :
                                 /\ summary.offsets[i] = results[i].offset
                                 /\ summary.delays[i] = results[i].delay)
    /\ [][ (reports' = 1 \/ reports = 1) => results' = results ]_vars

\* a finished run whose summary covers two different samples
C5_Witness ==
    /\ pc = "done"
    /\ reports = 1
    /\ summary.kind = "stats"
    /\ summary.count = 2
    /\ summary.offsets[1] # summary.offsets[2]

-----------------------------------------------------------------------------
(* C6: the cooldown after a resolution failure *)

\* C6: an iteration that ends in name-resolution failure sleeps 1 second
\* right after its notice and then the regular interval; every other
\* iteration sleeps the regular interval only.
C6_CooldownOnlyOnResolutionFailure ==
    /\ pc = "cooldown"
          => (Last(events) = "resolve_notice" /\ slept = << >>)
    /\ pc = "sleep"
          => slept = (IF "resolve_notice" \in Range(events)
                      THEN << 1 >> ELSE << >>)
    /\ (pc = "top" /\ sequence >= 1)
          => slept = (IF "resolve_notice" \in Range(events)
                      THEN << 1, interval >> ELSE << interval >>)
    /\ pc \in {"send", "recv", "parse", "print"} => slept = << >>

\* an iteration that failed to resolve has slept the cooldown, then the
\* interval
C6_Witness ==
    /\ pc = "top"
    /\ "resolve_notice" \in Range(events)
    /\ slept = << 1, interval >>
    /\ interval = 0

-----------------------------------------------------------------------------
(* C7: one exchange attempt per iteration *)

\* C7 as claimed: every iteration sends exactly one request datagram (seen
\* once the iteration has reached its sleep), receives at most one reply,
\* and the requests sent never exceed the sequence counter.
C7_OneRequestPerIteration ==
    /\ pc = "sleep" => Count(events, "request") = 1
    /\ Count(events, "reply") <= 1
    /\ sent <= sequence

\* C7 as amended: every iteration calls sendto at most once, and exactly
\* once before it reaches an outcome; the call transmits one request
\* datagram unless it fails (resolution failure or another send error), and
\* then the iteration sends none; an iteration receives at most one reply,
\* and only to a request it sent; a request is sent only by an iteration
\* that has not sent yet, after every earlier exchange reached its outcome;
\* the requests sent never exceed the sequence counter.
C7_OneAttemptPerIteration ==
    /\ [](/\ Count(events, "sendto") <= 1
          /\ Count(events, "request") <= Count(events, "sendto")
          /\ Count(events, "reply") <= Count(events, "request")
          /\ (pc \in {"recv", "parse", "print", "cooldown", "sleep"})
                => Count(events, "sendto") = 1
          /\ ("request" \in Range(events))
                <=> (events # << >>
                     /\ Range(events) \cap {"resolve_notice"} = {}
                     /\ ~(Len(events) = 2 /\ events[2] = "error_notice"))
          /\ pc = "send" => (events = << >> /\ sent <= sequence - 1)
          /\ pc = "recv" => events = << "sendto", "request" >>
          /\ sent <= sequence
          /\ received <= sent)
    /\ [][ sent' # sent
             => (sent' = sent + 1 /\ pc = "send" /\ pc' = "recv") ]_vars

\* a second iteration has a request in flight after a first one that sent
\* none
C7_Witness ==
    /\ sequence = 2
    /\ pc = "recv"
    /\ sent = 1

-----------------------------------------------------------------------------
(* C8: the socket *)

\* C8: one socket is created, before the first iteration; it is open at
\* every place of the loop, whatever the iterations' outcomes, and while
\* the summary is printed; once a cancelled run has finished, it is closed.
C8_SocketScoped ==
    /\ acquired <= 1
    /\ pc = "setup" => (acquired = 0 /\ client = "none" /\ sequence = 0)
    /\ (pc \in LoopPcs \cup {"summary", "close"})
          => (acquired = 1 /\ client = "open")
    /\ (stoppedAt # "none" /\ pc \notin {"summary", "close"})
          => (pc = "done" /\ client = "closed")
    /\ client = "closed" => (pc = "done" /\ stoppedAt \in LoopPcs)

\* a cancelled run of two failed iterations has closed the socket
C8_Witness ==
    /\ pc = "done"
    /\ client = "closed"
    /\ sequence = 2
    /\ results = << >>
    /\ received = 0

-----------------------------------------------------------------------------
(* C9: a non-positive interval *)

\* C9: with a zero or negative interval the loop never starts: the sequence
\* counter stays 0 and no request is sent.
C9_NonPositiveIntervalRejected ==
    interval <= 0 => (sequence = 0 /\ sent = 0 /\ pc \notin LoopPcs \ {"top"})

-----------------------------------------------------------------------------
(* C10: the offset and delay of a sample *)

\* the float a peer's stamp stands for
StampTime(st) ==
    Fl((st[1] - NTP_DELTA) * UnitsPerSecond + st[2] * UnitsPerTick)

\* C10: the sample recorded for an exchange with the clock readings t1, t4
\* and the peer's stamps t2, t3 has delay (t4 - t1) - (t3 - t2) and offset
\* ((t2 - t1) + (t3 - t4)) / 2, every operation in float arithmetic; four
\* equal timestamps give offset 0 and delay 0; a negative delay is recorded
\* as it is, neither clamped nor rejected.
C10_SampleFormula ==
    pc = "print" =>
        LET s  == results[Len(results)]
            p2 == StampTime(server[1])
            p3 == StampTime(server[2])
        IN  /\ s.delay = Fl(Fl(t4 - t1) - Fl(p3 - p2))
            /\ 2 * s.offset = Fl(Fl(p2 - t1) + Fl(p3 - t4))
            /\ (t1 = p2 /\ p2 = p3 /\ p3 = t4)
                  => (s.offset = 0 /\ s.delay = 0)
            /\ Fl(t4 - t1) < Fl(p3 - p2) => s.delay < 0
            \* sent at 1.0 s, stamped 1.5 s and 1.625 s, received at 1.25 s:
            \* delay 0.125 s, offset 0.4375 s
            /\ (t1 = 1024 /\ server = << <<9, 8>>, <<9, 10>> >> /\ t4 = 1280)
                  => (s.delay = 128 /\ s.offset = 448)

\* a sample with a negative delay and a non-zero offset was recorded
C10_Witness ==
    /\ pc = "print"
    /\ results[Len(results)].delay < 0
    /\ results[Len(results)].offset > 0

-----------------------------------------------------------------------------
(* C11: the classification *)

\* C11: a summary of at least one sample reports exactly one verdict,
\* ACCURATE when the mean offset it reports is between -0.5 s and 0.5 s,
\* both included, and DRIFTING otherwise; samples that all have the offset
\* 0.5 s or -0.5 s are ACCURATE, samples that all have the next float
\* beyond, 0.53125 s or -0.53125 s, are DRIFTING.
C11_VerdictByMeanOffset ==
    (pc \in {"close", "done"} /\ results # << >>) =>
        /\ summary.verdict \in {"ACCURATE", "DRIFTING"}
        /\ summary.verdict = "ACCURATE"
              <=> (-512 <= summary.avg_offset /\ summary.avg_offset <= 512)
        /\ Len(results) = 1 => summary.avg_offset = results[1].offset
        /\ (\A i \in DOMAIN results : results[i].offset = 512)
              => (summary.avg_offset = 512 /\ summary.verdict = "ACCURATE")
        /\ (\A i \in DOMAIN results : results[i].offset = -512)
              => (summary.avg_offset = -512 /\ summary.verdict = "ACCURATE")
        /\ (\A i \in DOMAIN results : results[i].offset = 544)
              => summary.verdict = "DRIFTING"
        /\ (\A i \in DOMAIN results : results[i].offset = -544)
              => summary.verdict = "DRIFTING"

\* three samples whose mean is exactly -0.5 s were classified ACCURATE
C11_Witness ==
    /\ pc = "done"
    /\ summary.kind = "stats"
    /\ summary.count = 3
    /\ summary.min_offset < summary.max_offset
    /\ summary.avg_offset = -512
    /\ summary.verdict = "ACCURATE"

-----------------------------------------------------------------------------
(* C12: the summary of no sample *)

\* C12: the summary of a run that recorded no sample is "no data
\* collected" and nothing else: no count, no aggregate, no verdict; and
\* only such a run gets it.
C12_NoDataWhenEmpty ==
    (pc \in {"close", "done"}) =>
        /\ results = << >> => summary = [kind |-> "nodata"]
        /\ results # << >> => summary.kind = "stats"

\* a run of two failed iterations was interrupted and reported no data
C12_Witness ==
    /\ pc = "done"
    /\ sequence = 2
    /\ sent = 2
    /\ received = 1
    /\ results = << >>
    /\ summary.kind = "nodata"

-----------------------------------------------------------------------------
(* C13: the aggregates *)

\* the exact sum of a sequence of integers
RECURSIVE ExactSum(_)
ExactSum(q) ==
    IF q = << >> THEN 0 ELSE ExactSum(SubSeq(q, 1, Len(q) - 1)) + q[Len(q)]

OffsetsOf(rs) == [i \in DOMAIN rs |-> rs[i].offset]
DelaysOf(rs) == [i \in DOMAIN rs |-> rs[i].delay]

\* what C13 says of the aggregates apart from the place of the mean: the
\* count, the two extremes, the two means as float sums divided by the
\* count and near the exact means, the population variance and its root
AggregatesOf(rs, sm) ==
    LET n        == Len(rs)
        offsets  == OffsetsOf(rs)
        delays   == DelaysOf(rs)
        largest  == SeqMax([i \in 1..n |-> Abs(offsets[i])])
    IN  /\ sm.count = n
        /\ sm.min_offset \in Range(offsets)
        /\ sm.max_offset \in Range(offsets)
        /\ \A i \in 1..n : sm.min_offset <= offsets[i]
                            /\ offsets[i] <= sm.max_offset
        /\ sm.avg_offset = FDiv(FSum(offsets), n)
        /\ sm.avg_delay = FDiv(FSum(delays), n)
        /\ Abs(sm.avg_offset * n - ExactSum(offsets)) * Pow2(MantBits)
              <= 2 * n * n * largest + n * Pow2(MantBits)
        /\ sm.variance >= 0
        /\ sm.variance
              = FDiv(FSum([i \in 1..n |->
                              FSquare(FSub(offsets[i], sm.avg_offset))]), n)
        /\ sm.std_dev = FSqrt(sm.variance)
        /\ n = 1 => /\ sm.avg_offset = offsets[1]
                    /\ sm.avg_delay = delays[1]
                    /\ sm.variance = 0
                    /\ sm.std_dev = 0
        /\ offsets = << 416, 544 >>
              => /\ sm.avg_offset = 480
                 /\ sm.variance = 4096
                 /\ sm.std_dev = 64

\* C13 as stated: the aggregates above, with the mean offset between the
\* least and the greatest offset.
C13_MeanBetweenExtremes ==
    (pc \in {"close", "done"} /\ results # << >>) =>
        /\ AggregatesOf(results, summary)
        /\ summary.min_offset <= summary.avg_offset
        /\ summary.avg_offset <= summary.max_offset

\* C13, amended: the summary of at least one sample has the number of
\* samples as count, the least and the greatest offset as min_offset and
\* max_offset, the float sums of the offsets and of the delays divided by
\* the count as the two means, the float mean of the squared deviations from
\* the mean offset as variance (0 for one sample) and its root as standard
\* deviation; the mean offset is near the exact mean but, being rounded,
\* not always between the two extremes.
C13_Aggregates ==
    (pc \in {"close", "done"} /\ results # << >>) =>
        /\ AggregatesOf(results, summary)
        /\ summary.min_offset <= summary.max_offset

\* three equal offsets were summarised with a mean above all of them
C13_Witness ==
    /\ pc = "done"
    /\ summary.kind = "stats"
    /\ summary.count = 3
    /\ summary.min_offset = summary.max_offset
    /\ summary.avg_offset > summary.max_offset
    /\ summary.variance > 0

-----------------------------------------------------------------------------
(* C14: the timestamp codec *)

\* the exact value of a timestamp, in units
ExactTime(st) == (st[1] - NTP_DELTA) * UnitsPerSecond + st[2] * UnitsPerTick

\* the distance between the floats around a value
Spacing(v) ==
    IF BitLen(Abs(v)) > MantBits THEN Pow2(BitLen(Abs(v)) - MantBits) ELSE 1

\* a decoded value is a float next to the exact value of the timestamp
NearestFloat(v, st) ==
    /\ Fl(v) = v
    /\ 2 * Abs(v - ExactTime(st)) <= Spacing(ExactTime(st))
    /\ Spacing(ExactTime(st)) = 1 => v = ExactTime(st)

\* C14 as stated: both timestamps of a complete reply decode to within one
\* tick of the fraction field of their exact values.
C14_WithinOneTick ==
    (pc = "print") =>
        /\ Abs(t2 - ExactTime(server[1])) <= UnitsPerTick
        /\ Abs(t3 - ExactTime(server[2])) <= UnitsPerTick

\* C14, amended: each timestamp of a complete reply decodes to the float
\* nearest to (seconds - NTP_DELTA) + fraction / 2**32, exactly that value
\* when it fits the significand, at most half the float spacing away
\* otherwise, and within one tick when the value is small enough for the
\* spacing to be two ticks or less; a reply cut inside a timestamp gives
\* the decoding error, and no value for the timestamp that was cut.
C14_NearestFloat ==
    /\ (pc = "print") =>
          /\ NearestFloat(t2, server[1])
          /\ NearestFloat(t3, server[2])
          /\ Spacing(ExactTime(server[1])) <= 2 * UnitsPerTick
                => Abs(t2 - ExactTime(server[1])) <= UnitsPerTick
          /\ Len(data) = TxTo
    /\ (pc = "parse" /\ Len(data) < TxTo) => ~ENABLED Record
    /\ (pc = "sleep") =>
          /\ Len(data) < TxTo
          /\ Last(events) = "error_notice"
          /\ results = << >>
          /\ t3 = 0
          /\ Len(data) < RxTo => t2 = 0
          /\ Len(data) >= RxTo => NearestFloat(t2, server[1])

\* a timestamp was decoded two ticks away from its exact value
C14_Witness ==
    /\ pc = "print"
    /\ Abs(t2 - ExactTime(server[1])) = 2 * UnitsPerTick
    /\ NearestFloat(t2, server[1])

-----------------------------------------------------------------------------
(* C15: every exchange ends, and the loop goes on *)

\* the receive of an exchange that sent its request always ends, with a
\* datagram, a timeout or another error, unless the interrupt aborts it
C15_ReceiveEnds == (pc = "recv") ~> (pc # "recv")

\* C15: an exchange that has sent its request reaches an outcome and then,
\* unless the run is interrupted, the top of the loop for the next
\* iteration.
C15_ReachesNextIteration ==
    (pc = "recv") ~> (pc = "top" \/ stoppedAt # "none")

-----------------------------------------------------------------------------
(* C16: one output line per iteration *)

\* the progress lines and notices an iteration has printed
OutputLines ==
    {i \in DOMAIN events : events[i] \in FailureNotices \cup {"progress"}}

\* C16: an iteration that has reached the inter-poll sleep has printed
\* exactly one line: the progress line if it recorded a sample, one notice
\* otherwise.
C16_OneLinePerIteration ==
    (pc = "sleep") =>
        /\ Cardinality(OutputLines) = 1
        /\ "progress" \notin Range(events)
              => Range(events) \cap FailureNotices # {}

-----------------------------------------------------------------------------
(* C17: the order of an iteration *)

\* the steps of the poll loop from one position to the next
LoopOrder ==
    { <<"top", "send">>, <<"send", "recv">>, <<"send", "cooldown">>,
      <<"send", "sleep">>, <<"recv", "parse">>, <<"recv", "sleep">>,
      <<"parse", "print">>, <<"parse", "sleep">>, <<"print", "sleep">>,
      <<"cooldown", "sleep">>, <<"sleep", "top">> }

\* C17: inside the loop the steps go from the top to the send, the
\* receive, an outcome and the inter-poll sleep, and only from there back
\* to the top; the first iteration starts without any sleep before it, and
\* every later one starts after exactly one inter-poll sleep of the
\* configured interval, which was the last thing the iteration before did
\* whatever its outcome (after the cooldown, if that was a resolution
\* failure).
C17_OneSleepBetweenSends ==
    [][ /\ (pc \in LoopPcs /\ pc' \in LoopPcs /\ pc' # pc)
              => << pc, pc' >> \in LoopOrder
        /\ pc' = "send" =>
              /\ pc = "top"
              /\ sequence = 0 => (slept = << >> /\ events = << >>)
              /\ sequence > 0 =>
                    /\ slept # << >>
                    /\ Last(slept) = interval
                    /\ Len(slept)
                          = IF "resolve_notice" \in Range(events) THEN 2 ELSE 1
                    /\ Len(slept) = 2 => slept[1] = Cooldown
        /\ (pc = "sleep" /\ pc' = "top") => slept' = Append(slept, interval)
      ]_vars

\* the second iteration was started after a first one that sent its
\* request, got no reply and slept the interval
C17_Witness ==
    /\ pc = "send"
    /\ sequence = 2
    /\ sent = 1
    /\ received = 0
    /\ interval = 1

-----------------------------------------------------------------------------
(* C18: the sequence counter and the recorded samples *)

\* C18: the counter is 0 until the loop starts, a step changes it only by
\* adding 1 and only as the step that starts an iteration, which always
\* does so, after a failed iteration as well; there are never more samples
\* than iterations started; and a step leaves the samples already recorded
\* where and as they were.
C18_CounterCountsIterations ==
    /\ [](pc = "setup" => (sequence = 0 /\ results = << >>))
    /\ [](Len(results) <= sequence /\ sent <= sequence)
    /\ [][ /\ sequence' # sequence
                => (sequence' = sequence + 1 /\ pc = "top" /\ pc' = "send")
           /\ pc' = "send" => sequence' = sequence + 1
           /\ Len(results') >= Len(results)
           /\ SubSeq(results', 1, Len(results)) = results
         ]_vars

\* the second iteration was started after a first one that recorded nothing
C18_Witness ==
    /\ pc = "parse"
    /\ sequence = 2
    /\ received = 2
    /\ results = << >>

-----------------------------------------------------------------------------
(* C19: intervals of zero and below *)

=============================================================================
